---- MODULE Spec2Model ----
(***************************************************************************)
(* Model of preparehost.py: main() and the provisioning of the compiler-rt *)
(* runtime library for the foreign target platforms.                       *)
(*                                                                         *)
(* A file or directory name is a sequence of tokens ("x86_64", "-", ".",   *)
(* "repo", ...), so that the string operations of the script (split('-'),  *)
(* endswith('.repo'), 'compiler-rt' in fn, idir == platform_triplet,       *)
(* replace('$basearch', platform)) are computed and not assumed.  A path   *)
(* is a sequence of names; an absolute path starts with the name ROOT.     *)
(* The contents of a text file are a sequence of tokens as well.           *)
(***************************************************************************)
EXTENDS Integers, Sequences, FiniteSets, TLC

\* ---------------------------------------------------------------- bounds
\* deepest nesting of the target directory inside the downloaded package
MaxDepth == 2

\* ------------------------------------------------------- names and paths
ROOT == <<"/">>
HOMEDIR == <<ROOT, <<"home">>>>
CWD == <<ROOT, <<"home">>>>
\* Python's None: as a name (what f'{None}' formats to), as a path, as a platform
NONE == <<"None">>
NOPATH == <<>>
NOPLATFORM == "None"
TARGET_PLATFORMS == <<"x86_64">>

\* str.startswith / str.endswith / `in` on token sequences
StartsWith(s, pre) ==
    /\ Len(s) >= Len(pre)
    /\ SubSeq(s, 1, Len(pre)) = pre

EndsWith(s, suf) ==
    /\ Len(s) >= Len(suf)
    /\ SubSeq(s, Len(s) - Len(suf) + 1, Len(s)) = suf

Contains(s, sub) ==
    \E k \in 0..Len(s) : k + Len(sub) <= Len(s) /\ SubSeq(s, k + 1, k + Len(sub)) = sub

\* str.split('-', maxsplit=1): the pieces around the first '-'
SplitDash(s) ==
    IF \E k \in 1..Len(s) : s[k] = "-"
    THEN LET k == CHOOSE j \in 1..Len(s) : s[j] = "-" /\ \A m \in 1..(j - 1) : s[m] # "-"
         IN  <<SubSeq(s, 1, k - 1), SubSeq(s, k + 1, Len(s))>>
    ELSE <<s>>

\* (variant: str.replace(old, new, 1), only the first occurrence)
ReplaceFirst(s, old, new) ==
    [k \in 1..Len(s) |->
        IF s[k] = old /\ \A j \in 1..(k - 1) : s[j] # old THEN new ELSE s[k]]

\* str.replace(old, new) for a one-token old
Replace(s, old, new) == [k \in 1..Len(s) |-> IF s[k] = old THEN new ELSE s[k]]

IsAbs(p) == Len(p) >= 1 /\ p[1] = ROOT

\* os.path.join(a, b)
PathJoin(a, b) == IF IsAbs(b) THEN b ELSE a \o b

\* os.path.abspath(p)
AbsPath(p) == IF IsAbs(p) THEN p ELSE CWD \o p

\* os.path.split(p): <<head, tail>>, the tail being a name
PathSplit(p) == <<SubSeq(p, 1, Len(p) - 1), p[Len(p)]>>

IsUnder(p, d) == Len(p) >= Len(d) /\ SubSeq(p, 1, Len(d)) = d

\* Path(p).relative_to(d)
RelativeTo(p, d) == SubSeq(p, Len(d) + 1, Len(p))

Parents(p) == {SubSeq(p, 1, k) : k \in 1..(Len(p) - 1)}

\* ----------------------------------------------------------- filesystem
\* A filesystem is a function from absolute paths to nodes.
DirNode == [kind |-> "dir", data |-> <<>>, target |-> <<>>]
EmptyFS == [p \in {} |-> DirNode]
FileNode(d) == [kind |-> "file", data |-> d, target |-> <<>>]
LinkNode(t) == [kind |-> "link", data |-> <<>>, target |-> t]

\* where a symbolic link at p with target t points
LinkDest(p, t) == IF IsAbs(t) THEN t ELSE SubSeq(p, 1, Len(p) - 1) \o t

Resolve(f, p) == IF f[p].kind = "link" THEN LinkDest(p, f[p].target) ELSE p

\* os.path.exists(p): follows a symbolic link at p
PathExists(f, p) ==
    /\ p \in DOMAIN f
    /\ Resolve(f, p) \in DOMAIN f

\* the node a read of p sees, following a link (a dangling link reads as itself)
ReadNode(f, p) == IF Resolve(f, p) \in DOMAIN f THEN f[Resolve(f, p)] ELSE f[p]

\* the path open(p, 'w') writes: a link is written through
WritePath(f, p) == IF p \in DOMAIN f THEN Resolve(f, p) ELSE p

Restrict(f, S) == [p \in S |-> f[p]]

\* (variant: the directory is left as it is)
RmTreeKeeps(f, d) == f

\* shutil.rmtree(d)
RmTree(f, d) == Restrict(f, {p \in DOMAIN f : ~IsUnder(p, d)})

\* os.makedirs(d): d and its missing parents
MakeDirs(f, d) ==
    LET new == {q \in Parents(d) \cup {d} : q \notin DOMAIN f}
    IN  [p \in DOMAIN f \cup new |-> IF p \in DOMAIN f THEN f[p] ELSE DirNode]

Put(f, p, node) == [q \in DOMAIN f \cup {p} |-> IF q = p THEN node ELSE f[q]]

\* the paths at which two filesystems differ
Changed(f, g) ==
    {p \in DOMAIN f \cup DOMAIN g :
        \/ p \notin DOMAIN f
        \/ p \notin DOMAIN g
        \/ f[p] # g[p]}

\* ---------------------------------------------------- directory listings
\* os.listdir / os.scandir return the entries in an arbitrary order; the
\* model lists them in lexicographic order of their tokens, ascending or
\* descending.
TokenOrder ==
    <<"-", ".", "aarch64", "base", "bak", "compiler", "debug", "dnf.conf", "extract",
      "lib", "link", "linux", "old", "opt", "other", "redhat", "repo", "rpm", "rt", "so",
      "stale", "sub", "unknown", "x", "x86_64", "a", "RPMs", "conf", "d", "repos", "yum">>

TokRank(t) == CHOOSE k \in 1..Len(TokenOrder) : TokenOrder[k] = t

RECURSIVE NameLess(_, _)
NameLess(a, b) ==
    IF b = <<>> THEN FALSE
    ELSE IF a = <<>> THEN TRUE
    ELSE IF Head(a) = Head(b) THEN NameLess(Tail(a), Tail(b))
    ELSE TokRank(Head(a)) < TokRank(Head(b))

RECURSIVE SortNames(_, _)
SortNames(S, listing) ==
    IF S = {} THEN <<>>
    ELSE LET first == CHOOSE n \in S :
                 \A m \in S \ {n} :
                     IF listing = "asc" THEN NameLess(n, m) ELSE NameLess(m, n)
         IN  <<first>> \o SortNames(S \ {first}, listing)

Children(f, d) == {p \in DOMAIN f : Len(p) = Len(d) + 1 /\ IsUnder(p, d)}

\* os.path.isdir-like test of os.walk: a link to a directory counts
IsDirEntry(f, p) == ReadNode(f, p).kind = "dir"

\* os.listdir(d)
ListDir(f, d, listing) == SortNames({p[Len(p)] : p \in Children(f, d)}, listing)

\* the dirnames of one os.walk entry
DirNames(f, d, listing) ==
    SelectSeq(ListDir(f, d, listing), LAMBDA n : IsDirEntry(f, d \o <<n>>))

\* os.walk(top), top-down: the sequence of <<dirname, dirnames>> entries;
\* links to directories are listed but not descended into
RECURSIVE WalkFrom(_, _, _)
RECURSIVE WalkEach(_, _, _, _)
WalkFrom(f, d, listing) ==
    LET names == DirNames(f, d, listing)
    IN  <<[dirname |-> d, dirnames |-> names]>> \o WalkEach(f, d, names, listing)

WalkEach(f, d, names, listing) ==
    IF names = <<>> THEN <<>>
    ELSE LET sub == d \o <<Head(names)>>
         IN  (IF f[sub].kind = "dir" THEN WalkFrom(f, sub, listing) ELSE <<>>)
             \o WalkEach(f, d, Tail(names), listing)

Walk(f, top, listing) == IF top \in DOMAIN f /\ f[top].kind = "dir"
                         THEN WalkFrom(f, top, listing) ELSE <<>>

\* shutil.copytree(src, dst, symlinks=symlinks) once dst is known not to
\* exist: dst and its missing parents are created, directories and files
\* are copied, and a symbolic link is recreated with the same target
\* (symlinks=True) or replaced by a copy of the file it points to.
CopyTree(f, src, dst, symlinks) ==
    LET base == MakeDirs(f, dst)
        srcs == {p \in DOMAIN f : IsUnder(p, src) /\ p # src}
        dsts == {dst \o RelativeTo(p, src) : p \in srcs}
        CopyOf(q) ==
            LET p == src \o RelativeTo(q, dst)
            IN  IF f[p].kind = "link" /\ ~symlinks THEN ReadNode(f, p) ELSE f[p]
    IN  [q \in DOMAIN base \cup dsts |-> IF q \in dsts THEN CopyOf(q) ELSE base[q]]

\* ------------------------------------------------------ the host fixture
LIB == <<ROOT, <<"lib">>>>
RT_NAME == <<"rt", ".", "a">>
SYS_REPOS == <<ROOT, <<"etc">>, <<"yum", ".", "repos", ".", "d">>>>
SYS_DNFCONF == <<ROOT, <<"etc">>, <<"dnf">>, <<"dnf", ".", "conf">>>>
BASE_REPO == SYS_REPOS \o <<<<"base", ".", "repo">>>>
GCC_OUT == LIB \o <<<<"gcc">>, <<"libgcc", ".", "a">>>>

\* what `clang --rtlib=compiler-rt --print-libgcc-file-name` may print on
\* the host: the per-target layout with two vendor strings, the older
\* lib/linux layout, and a relative path
NativeOuts ==
    { LIB \o <<<<"aarch64", "-", "redhat", "-", "linux">>, RT_NAME>>,
      LIB \o <<<<"aarch64", "-", "unknown">>, RT_NAME>>,
      LIB \o <<<<"linux">>, RT_NAME>>,
      <<<<"lib">>, <<"aarch64", "-", "redhat", "-", "linux">>, RT_NAME>> }

\* the host's vendor/OS suffix and the directory name of a platform's
\* runtime libraries, as the installed and the packaged clang lay them out
HostSuffix(nat) == Tail(Tail(nat[Len(nat) - 1]))
HostTriple(platform, nat) == <<platform, "-">> \o HostSuffix(nat)
HostHasSuffix(nat) == Len(nat[Len(nat) - 1]) >= 3

\* a file or directory together with its parent directories
WithParents(p, node) == [q \in Parents(p) \cup {p} |-> IF q = p THEN node ELSE DirNode]

EtcVariants == {"plain", "links", "nomain", "noconf"}

EtcFS(v) ==
    WithParents(BASE_REPO, FileNode(<<"baseurl", "$basearch", "x", "$basearch">>))
    @@ (IF v = "noconf" THEN WithParents(SubSeq(SYS_DNFCONF, 1, 3), DirNode)
        ELSE WithParents(SYS_DNFCONF,
                 FileNode(IF v = "nomain" THEN <<"gpgcheck">>
                          ELSE IF v = "links" THEN <<"[main]", "reposdir=system", "#comment">>
                          ELSE <<"[main]", "gpgcheck">>)))
    @@ (IF v = "plain"
        THEN WithParents(SYS_REPOS \o <<<<"base", ".", "repo", ".", "bak">>>>,
                         FileNode(<<"$basearch">>))
        ELSE IF v = "links"
        THEN WithParents(SYS_REPOS \o <<<<"sub">>, <<"other", ".", "repo">>>>,
                         FileNode(<<"x", "$basearch">>))
             @@ WithParents(SYS_REPOS \o <<<<"link", ".", "repo">>>>, LinkNode(BASE_REPO))
        ELSE EmptyFS)

GccVariants == {"absent", "elf", "script"}

GccFS(v) ==
    WithParents(GCC_OUT, FileNode(<<"ELF">>))
    @@ (IF v = "absent" THEN EmptyFS
        ELSE WithParents(LIB \o <<<<"gcc">>, <<"libgcc_s", ".", "so">>>>,
                 FileNode(IF v = "elf" THEN <<"ELF">> ELSE <<"GROUP">>)))

\* ------------------------------------------- names built by the script
\* f'yum-{platform}' (line 119)
YumDir(platform) == PathJoin(HOMEDIR, <<<<"yum", "-", platform>>>>)
YumCfgFile(platform) == PathJoin(YumDir(platform), <<<<"dnf", ".", "conf">>>>)
YumRepoDir(platform) == PathJoin(YumDir(platform), <<SYS_REPOS[Len(SYS_REPOS)]>>)
YumRpmDir(platform) == PathJoin(YumDir(platform), <<<<"RPMs">>>>)
ExtractDir(platform) == PathJoin(YumRpmDir(platform), <<<<"extract">>>>)

\* (variant: the suffix is left out of the --target argument)
TargetTripleNoSuffix(platform, suffix) == <<platform>>

\* f'{platform}-{PLATFORM_SUFFIX}' as get_libgcc_path builds it (line 89)
TargetTriple(platform, suffix) == <<platform, "-">> \o suffix

\* f'{platform}-{PLATFORM_SUFFIX}' as install_alt_platforms_rtlib builds it (line 109)
PlatformTriplet(platform, suffix) == <<platform, "-">> \o suffix

\* lines 102-103: the parent directory name of the probed path, and what
\* follows its first '-' (split(...)[1] raises IndexError when there is none)
DefaultPlatform(libgcc_path) == PathSplit(PathSplit(libgcc_path)[1])[2]

HasSuffix(default_platform) == Len(SplitDash(default_platform)) >= 2

SuffixOf(default_platform) == SplitDash(default_platform)[2]

\* the path clang prints for --print-libgcc-file-name
ClangPrints(rtlib, target, nativeOut) ==
    IF target # NONE THEN LIB \o <<target, RT_NAME>>
    ELSE IF rtlib = "compiler-rt" THEN nativeOut
    ELSE GCC_OUT

\* ------------------------------------------------- the package fixture
\* The payload of a downloaded rpm is named by the file's data: a kind
\* followed by one "lib" per level of nesting of the target directory.
PkgKinds == {"exact", "longer", "two"}

Chain(d) == [k \in 1..d |-> <<"lib">>]

RpmData(kind, d) == <<kind>> \o [k \in 1..d |-> "lib"]

\* the file tree (relative paths) rpm2cpio | cpio -idm unpacks
PkgTree(data, triple) ==
    LET kind == data[1]
        at == Chain(Len(data) - 1)
    IN  IF kind = "exact" \/ kind = "two"
        THEN WithParents(at \o <<triple, RT_NAME>>, FileNode(<<"ELF">>))
             @@ WithParents(at \o <<triple, <<"rt", ".", "so">>>>, LinkNode(<<RT_NAME>>))
             @@ (IF kind = "two"
                 THEN WithParents(<<<<"opt">>, triple, <<"x">>>>, FileNode(<<"x">>))
                 ELSE EmptyFS)
        ELSE IF kind = "longer"
        THEN WithParents(at \o <<triple \o <<"-", "x">>, RT_NAME>>, FileNode(<<"ELF">>))
             @@ WithParents(at \o <<triple>>, FileNode(<<"x">>))
        ELSE EmptyFS

RT_RPM == <<"compiler", "-", "rt", ".", "rpm">>
DEBUG_RPM == <<"compiler", "-", "rt", "-", "debug", ".", "rpm">>

\* what a `dnf download` that exits 0 may leave in its working directory
Downloads ==
    {[n \in {RT_RPM} |-> FileNode(RpmData(k, d))] : k \in PkgKinds, d \in 1..MaxDepth}
    \cup {[n \in {RT_RPM, DEBUG_RPM} |->
              FileNode(IF n = RT_RPM THEN RpmData("exact", 1) ELSE RpmData("longer", 1))]}
    \cup {EmptyFS}
    \cup {[n \in {<<"other", ".", "rpm">>, <<"compiler", "-", "rt", ".", "x">>} |->
              FileNode(<<"x">>)]}

\* files of dir (names to nodes) added to the filesystem
AddFiles(f, dir, files) ==
    [q \in DOMAIN f \cup {dir \o <<n>> : n \in DOMAIN files} |->
        IF q \in DOMAIN f THEN f[q] ELSE files[q[Len(q)]]]

\* a tree (relative paths to nodes) unpacked into dir
Unpack(f, dir, tree) ==
    [q \in DOMAIN f \cup {dir \o r : r \in DOMAIN tree} |->
        IF q \in DOMAIN f THEN f[q] ELSE tree[RelativeTo(q, dir)]]

\* the scratch directory an earlier run may have left
StaleVariants == {"none", "dir"}

StaleFS(v, platform) ==
    IF v = "none" THEN WithParents(HOMEDIR, DirNode)
    ELSE WithParents(YumDir(platform) \o <<<<"stale">>>>, FileNode(<<"x">>))
         @@ WithParents(YumRpmDir(platform) \o <<<<"compiler", "-", "rt", "-", "old", ".", "rpm">>>>,
                        FileNode(RpmData("longer", 1)))

\* whether the target's runtime library, or only its directory, is there
TargetVariants == {"absent", "installed", "destdir", "destfile"}

TargetFS(v, triple) ==
    IF v = "installed" THEN WithParents(LIB \o <<triple, RT_NAME>>, FileNode(<<"ELF">>))
    ELSE IF v = "destdir"
    THEN WithParents(LIB \o <<triple, <<"rt", ".", "so">>>>, FileNode(<<"old">>))
    ELSE IF v = "destfile" THEN WithParents(LIB \o <<triple>>, FileNode(<<"x">>))
    ELSE EmptyFS

\* the scratch and library directories of the first k platforms of the list tps
RECURSIVE PlatformsFS(_, _, _, _, _)
PlatformsFS(tps, k, stale, tgt, nat) ==
    IF k = 0 THEN EmptyFS
    ELSE StaleFS(stale, tps[k])
         @@ TargetFS(tgt, HostTriple(tps[k], nat))
         @@ PlatformsFS(tps, k - 1, stale, tgt, nat)

InitFS(tps, nat, gcc, etcv, stale, tgt) ==
    WithParents(AbsPath(nat), FileNode(<<"ELF">>))
    @@ EtcFS(etcv)
    @@ GccFS(gcc)
    @@ PlatformsFS(tps, Len(tps), stale,
                   IF HostHasSuffix(nat) THEN tgt ELSE "absent", nat)

\* ------------------------------------------------------------- state
VARIABLES
    pc,                 \* the statement of main() / the loop body about to run
    fs,                 \* the filesystem
    PLATFORM_SUFFIX,    \* the global of line 21
    targets,            \* the list the for loop of line 108 walks: TARGET_PLATFORMS
    idx,                \* position of the for loop in targets
    platform_triplet, libgcc_path, libgcc_rpm_file, libgcc_extract_dir,
    clangOK, cpioOK,    \* whether the executables can be started
    nativeOut, listing, \* what the host's clang prints; the order of listings
    exitCode, error,    \* the process's exit status and the exception that ended it
    cmds,               \* the external commands started so far, in order: by main()
                        \* before the loop, then by the current platform's attempt
    hist,               \* per target platform, the states its attempt went through
    assigns,            \* how many times PLATFORM_SUFFIX was assigned
    fs0, fsLoop,        \* the filesystem at start, and when the current attempt began
    run,                \* "first", or "second" once the script was started again
    prev                \* how the earlier run of the script ended

vars == <<pc, fs, PLATFORM_SUFFIX, idx, platform_triplet, libgcc_path, libgcc_rpm_file,
          libgcc_extract_dir, clangOK, cpioOK, nativeOut, listing, exitCode, error,
          cmds, hist, assigns, fs0, fsLoop, targets, run, prev>>

locals == <<platform_triplet, libgcc_path, libgcc_rpm_file, libgcc_extract_dir>>
env == <<clangOK, cpioOK, nativeOut, listing, fs0, targets, run, prev>>

\* nothing is known of an earlier run
NoPrev == [last |-> "none", error |-> "none", exitCode |-> -1, dst |-> NOPATH]

\* the process as the interpreter starts it, the platform list being tps
InitWith(tps) ==
    /\ pc = "detect_machine_type"
    /\ targets = tps
    /\ run = "first"
    /\ prev = NoPrev
    /\ nativeOut \in NativeOuts
    /\ listing \in {"asc", "desc"}
    /\ \E gcc \in GccVariants, etcv \in EtcVariants, stale \in StaleVariants,
          tgt \in TargetVariants :
           fs = InitFS(tps, nativeOut, gcc, etcv, stale, tgt)
    /\ fs0 = fs
    /\ fsLoop = fs
    /\ PLATFORM_SUFFIX = NONE
    /\ idx = 0
    /\ platform_triplet = NONE
    /\ libgcc_path = NOPATH
    /\ libgcc_rpm_file = NOPATH
    /\ libgcc_extract_dir = NOPATH
    /\ clangOK = TRUE
    /\ cpioOK = TRUE
    /\ exitCode = -1
    /\ error = "none"
    /\ cmds = <<>>
    /\ hist = [k \in 1..Len(tps) |-> <<"NotChecked">>]
    /\ assigns = 0

Init == InitWith(TARGET_PLATFORMS)

\* an external command was started and ended with rc
Ran(exe, op, arg, rc) ==
    cmds' = Append(cmds, [exe |-> exe, op |-> op, file |-> NOPATH, arg |-> arg, rc |-> rc])

\* (variant: the exception is swallowed and the process exits with 0)
RaiseExitsZero(e) ==
    /\ pc' = "exited"
    /\ exitCode' = 0
    /\ error' = e

\* sys.exit(1), or an exception nobody catches: the interpreter exits with 1
Raise(e) ==
    /\ pc' = "exited"
    /\ exitCode' = 1
    /\ error' = e

Goto(label) ==
    /\ pc' = label
    /\ UNCHANGED <<exitCode, error>>

\* (variant: check=True is missing, the exit code of clang is not looked at)
ProbeNeverRaises(rc) == FALSE

\* line 95: check=True makes subprocess.run raise on a non-zero exit code
ProbeRaises(rc) == rc # 0

\* a command line: the executable, its operation, its -c file or the file
\* it reads (NOPATH if none), its name argument, and its exit code
CmdAt(exe, op, file, arg, rc) == [exe |-> exe, op |-> op, file |-> file, arg |-> arg, rc |-> rc]
Cmd(exe, op, arg, rc) == CmdAt(exe, op, NOPATH, arg, rc)

\* ------------------------------------------------------------ main()
\* get_libgcc_path (lines 88-89): the --target argument, NONE without platform
ProbeTarget(platform, suffix) ==
    IF platform = NOPLATFORM THEN NONE ELSE TargetTriple(platform, suffix)

\* get_libgcc_path (lines 92-97): the value returned when clang exits 0
ProbeResult(rtlib, platform, suffix, nat) ==
    AbsPath(ClangPrints(rtlib, ProbeTarget(platform, suffix), nat))

detect_machine_type ==
    /\ pc = "detect_machine_type"
    /\ \E supported \in BOOLEAN :
           IF supported THEN Goto("detect_rpm_distro") ELSE Raise("SystemExit")
    /\ UNCHANGED <<fs, PLATFORM_SUFFIX, idx, locals, env, cmds, hist, assigns, fsLoop>>

detect_rpm_distro ==
    /\ pc = "detect_rpm_distro"
    /\ \E present \in BOOLEAN :
           IF present THEN Goto("detect_dnf_plugins") ELSE Raise("SystemExit")
    /\ UNCHANGED <<fs, PLATFORM_SUFFIX, idx, locals, env, cmds, hist, assigns, fsLoop>>

detect_dnf_plugins ==
    /\ pc = "detect_dnf_plugins"
    /\ \/ /\ Ran("dnf", "download --help", <<>>, 0)
          /\ Goto("install_native_dev_tools")
       \/ \E rc \in {0, 1} :
             /\ cmds' = cmds \o <<Cmd("dnf", "download --help", <<>>, 1),
                                  Cmd("dnf", "install", <<"dnf", "-", "plugins", "-", "core">>, rc)>>
             /\ IF rc = 0 THEN Goto("install_native_dev_tools")
                ELSE Raise("CalledProcessError")
    /\ UNCHANGED <<fs, PLATFORM_SUFFIX, idx, locals, env, hist, assigns, fsLoop>>

\* check_and_install (lines 61-67): nothing is run when the tools exist;
\* otherwise dnf is run and its exit code ignored
CheckAndInstall(exists, arg, rc) == IF exists THEN <<>> ELSE <<Cmd("dnf", "install", arg, rc)>>

install_native_dev_tools ==
    /\ pc = "install_native_dev_tools"
    /\ \E haveGcc, haveClang, haveCpio \in BOOLEAN, rcClang, rcCpio \in {0, 1} :
          /\ haveClang => rcClang = 0
          /\ haveCpio => rcCpio = 0
          /\ cmds' = cmds \o CheckAndInstall(haveGcc, <<"Development Tools">>, 0)
                          \o CheckAndInstall(haveClang, <<"clang">>, rcClang)
                          \o CheckAndInstall(haveCpio, <<"cpio">>, rcCpio)
          /\ clangOK' = (rcClang = 0)
          /\ cpioOK' = (rcCpio = 0)
    /\ Goto("set_lld")
    /\ UNCHANGED <<fs, PLATFORM_SUFFIX, idx, locals, nativeOut, listing, fs0, hist,
                   assigns, fsLoop, targets, run, prev>>

set_lld ==
    /\ pc = "set_lld"
    /\ \/ \E rc \in {0, 1} :
             /\ Ran("ld", "-version", <<>>, rc)
             /\ IF rc = 0 THEN Goto("remove_libgcc_s") ELSE Raise("CalledProcessError")
       \/ \E rc \in {0, 1} :
             /\ cmds' = cmds \o <<Cmd("ld", "-version", <<>>, 0),
                                  Cmd("update-alternatives", "--set", <<"ld">>, rc)>>
             /\ IF rc = 0 THEN Goto("remove_libgcc_s") ELSE Raise("CalledProcessError")
    /\ UNCHANGED <<fs, PLATFORM_SUFFIX, idx, locals, env, hist, assigns, fsLoop>>

\* shutil.move(file, file + '.bak')
MoveToBak(f, file) ==
    LET bak == SubSeq(file, 1, Len(file) - 1) \o <<file[Len(file)] \o <<".", "bak">>>>
    IN  [q \in (DOMAIN f \ {file}) \cup {bak} |-> IF q = bak THEN f[file] ELSE f[q]]

remove_libgcc_s ==
    /\ pc = "remove_libgcc_s"
    /\ IF ~clangOK
       THEN Raise("FileNotFoundError") /\ UNCHANGED <<fs, cmds>>
       ELSE \E rc \in {0, 1} :
               /\ Ran("clang", "print-libgcc-file-name", ProbeTarget(NOPLATFORM, PLATFORM_SUFFIX), rc)
               /\ IF ProbeRaises(rc)
                  THEN Raise("CalledProcessError") /\ UNCHANGED fs
                  ELSE LET libgcc_base_dir ==
                               PathSplit(ProbeResult("none", NOPLATFORM, PLATFORM_SUFFIX, nativeOut))[1]
                           libgcc_s_file ==
                               PathJoin(libgcc_base_dir, <<<<"libgcc_s", ".", "so">>>>)
                       IN  /\ Goto("populate_platform_suffix")
                           /\ fs' = IF /\ libgcc_s_file \in DOMAIN fs
                                       /\ fs[libgcc_s_file].data # <<"ELF">>
                                    THEN MoveToBak(fs, libgcc_s_file)
                                    ELSE fs
    /\ UNCHANGED <<PLATFORM_SUFFIX, idx, locals, env, hist, assigns, fsLoop>>

populate_platform_suffix ==
    /\ pc = "populate_platform_suffix"
    /\ IF ~clangOK
       THEN Raise("FileNotFoundError") /\ UNCHANGED <<cmds, PLATFORM_SUFFIX, assigns>>
       ELSE \E rc \in {0, 1} :
               /\ Ran("clang", "print-libgcc-file-name", ProbeTarget(NOPLATFORM, PLATFORM_SUFFIX), rc)
               /\ LET default_platform ==
                          DefaultPlatform(ProbeResult("compiler-rt", NOPLATFORM, PLATFORM_SUFFIX, nativeOut))
                  IN  IF ProbeRaises(rc)
                      THEN Raise("CalledProcessError") /\ UNCHANGED <<PLATFORM_SUFFIX, assigns>>
                      ELSE IF ~HasSuffix(default_platform)
                      THEN Raise("IndexError") /\ UNCHANGED <<PLATFORM_SUFFIX, assigns>>
                      ELSE /\ PLATFORM_SUFFIX' = SuffixOf(default_platform)
                           /\ assigns' = assigns + 1
                           /\ Goto("for")
    /\ UNCHANGED <<fs, idx, locals, env, hist, fsLoop>>

\* ------------------------------------- install_alt_platforms_rtlib()
Platform == targets[idx]

\* the state the attempt for the current platform enters
Mark(st) == hist' = [hist EXCEPT ![idx] = Append(@, st)]

\* (variant: the loop body catches the exception and goes on with the next
\* platform)
FailContinues(e) ==
    /\ Goto("for")
    /\ Mark("Failed")

\* an exception inside the loop body: nothing catches it
Fail(e) ==
    /\ Raise(e)
    /\ Mark("Failed")

\* line 108: the next platform, or the end of main() and sys.exit(None)
for_platform ==
    /\ pc = "for"
    /\ IF idx < Len(targets)
       THEN /\ idx' = idx + 1
            /\ platform_triplet' = PlatformTriplet(targets[idx + 1], PLATFORM_SUFFIX)
            /\ fsLoop' = fs
            /\ cmds' = <<>>
            /\ Goto("probe")
       ELSE /\ pc' = "exited"
            /\ exitCode' = 0
            /\ UNCHANGED <<idx, platform_triplet, fsLoop, error, cmds>>
    /\ UNCHANGED <<fs, PLATFORM_SUFFIX, libgcc_path, libgcc_rpm_file, libgcc_extract_dir,
                   env, hist, assigns>>

\* line 111
probe ==
    /\ pc = "probe"
    /\ IF ~clangOK
       THEN Fail("FileNotFoundError") /\ UNCHANGED <<cmds, libgcc_path>>
       ELSE \E rc \in {0, 1} :
               /\ Ran("clang", "print-libgcc-file-name",
                      ProbeTarget(Platform, PLATFORM_SUFFIX), rc)
               /\ IF ProbeRaises(rc)
                  THEN Fail("CalledProcessError") /\ UNCHANGED libgcc_path
                  ELSE /\ libgcc_path' =
                              ProbeResult("compiler-rt", Platform, PLATFORM_SUFFIX, nativeOut)
                       /\ Goto("check")
                       /\ UNCHANGED hist
    /\ UNCHANGED <<fs, PLATFORM_SUFFIX, idx, platform_triplet, libgcc_rpm_file,
                   libgcc_extract_dir, env, assigns, fsLoop>>

\* (variant: the existence test always answers no)
AlreadyInstalledNever(f, p) == FALSE

\* line 112: is the runtime library already installed?
AlreadyInstalled(f, p) == PathExists(f, p)

\* (variant: the `continue` is missing and the body goes on)
AfterPresentFallsThrough == "rmtree"

\* line 114: `continue`
AfterPresent == "for"

\* lines 112-116
check ==
    /\ pc = "check"
    /\ IF AlreadyInstalled(fs, libgcc_path)
       THEN Mark("Present") /\ Goto(AfterPresent)
       ELSE Mark("Absent") /\ Goto("rmtree")
    /\ UNCHANGED <<fs, PLATFORM_SUFFIX, idx, locals, env, cmds, assigns, fsLoop>>

\* lines 119-122
rmtree ==
    /\ pc = "rmtree"
    /\ fs' = IF PathExists(fs, YumDir(Platform)) THEN RmTree(fs, YumDir(Platform)) ELSE fs
    /\ Goto("makedirs")
    /\ UNCHANGED <<PLATFORM_SUFFIX, idx, locals, env, cmds, hist, assigns, fsLoop>>

\* lines 127-128
makedirs ==
    /\ pc = "makedirs"
    /\ IF YumDir(Platform) \in DOMAIN fs
       THEN Fail("FileExistsError") /\ UNCHANGED fs
       ELSE /\ fs' = MakeDirs(MakeDirs(fs, YumDir(Platform)), YumRpmDir(Platform))
            /\ Goto("copytree")
            /\ UNCHANGED hist
    /\ UNCHANGED <<PLATFORM_SUFFIX, idx, locals, env, cmds, assigns, fsLoop>>

\* (variant: the copy keeps symbolic links)
CopyReposKeepLinks(f, dst) == CopyTree(f, SYS_REPOS, dst, TRUE)

\* line 129: shutil.copytree('/etc/yum.repos.d', yumrepodir)
CopyRepos(f, dst) == CopyTree(f, SYS_REPOS, dst, FALSE)

copytree ==
    /\ pc = "copytree"
    /\ IF YumRepoDir(Platform) \in DOMAIN fs
       THEN Fail("FileExistsError") /\ UNCHANGED fs
       ELSE /\ fs' = CopyRepos(fs, YumRepoDir(Platform))
            /\ Goto("copyfile")
            /\ UNCHANGED hist
    /\ UNCHANGED <<PLATFORM_SUFFIX, idx, locals, env, cmds, assigns, fsLoop>>

\* line 130: shutil.copyfile('/etc/dnf/dnf.conf', yumcfgfile)
copyfile ==
    /\ pc = "copyfile"
    /\ IF ~PathExists(fs, SYS_DNFCONF)
       THEN Fail("FileNotFoundError") /\ UNCHANGED fs
       ELSE /\ fs' = Put(fs, WritePath(fs, YumCfgFile(Platform)),
                         FileNode(ReadNode(fs, SYS_DNFCONF).data))
            /\ Goto("editcfg")
            /\ UNCHANGED hist
    /\ UNCHANGED <<PLATFORM_SUFFIX, idx, locals, env, cmds, assigns, fsLoop>>

\* lines 133-137: ConfigParser reads the file, reposdir is set in [main]
\* (replacing an older value in place), and the file is written back
\* without its comments
EditConfig(data) ==
    LET kept == SelectSeq(data, LAMBDA t : t # "#comment")
    IN  IF \E k \in 1..Len(kept) : kept[k] = "reposdir=system"
        THEN Replace(kept, "reposdir=system", "reposdir=yumrepodir")
        ELSE Append(kept, "reposdir=yumrepodir")

editcfg ==
    /\ pc = "editcfg"
    /\ LET data == ReadNode(fs, YumCfgFile(Platform)).data
       IN  IF ~(\E k \in 1..Len(data) : data[k] = "[main]")
           THEN Fail("KeyError") /\ UNCHANGED fs
           ELSE /\ fs' = Put(fs, WritePath(fs, YumCfgFile(Platform)), FileNode(EditConfig(data)))
                /\ Goto("editrepo")
                /\ UNCHANGED hist
    /\ UNCHANGED <<PLATFORM_SUFFIX, idx, locals, env, cmds, assigns, fsLoop>>

\* lines 140-143: the files os.walk(yumrepodir) yields whose name ends in '.repo'
RepoFiles(f, dir) ==
    {p \in DOMAIN f :
        /\ IsUnder(p, dir) /\ p # dir
        /\ ReadNode(f, p).kind # "dir"
        /\ \A q \in Parents(p) : IsUnder(q, dir) => f[q].kind = "dir"
        /\ EndsWith(p[Len(p)], <<".", "repo">>)}

\* lines 144-148: each of them is read, '$basearch' replaced, and written back
RewriteRepos(f, dir, platform) ==
    LET written == {WritePath(f, p) : p \in RepoFiles(f, dir)}
    IN  [q \in DOMAIN f \cup written |->
            IF q \in written
            THEN FileNode(Replace(IF q \in DOMAIN f THEN f[q].data ELSE <<>>,
                                  "$basearch", platform))
            ELSE f[q]]

editrepo ==
    /\ pc = "editrepo"
    /\ fs' = RewriteRepos(fs, YumRepoDir(Platform), Platform)
    /\ Mark("RepoBuilt")
    /\ Goto("check_update")
    /\ UNCHANGED <<PLATFORM_SUFFIX, idx, locals, env, cmds, assigns, fsLoop>>

\* line 152: the exit code of check-update is not looked at
check_update ==
    /\ pc = "check_update"
    /\ \E rc \in {0, 1} :
           cmds' = Append(cmds, CmdAt("dnf", "check-update", YumCfgFile(Platform), <<>>, rc))
    /\ Goto("download")
    /\ UNCHANGED <<fs, PLATFORM_SUFFIX, idx, locals, env, hist, assigns, fsLoop>>

\* (variant: check=True is missing)
DownloadNeverFails(rc) == FALSE

\* line 154: check=True
DownloadFails(rc) == rc # 0

\* lines 153-154
download ==
    /\ pc = "download"
    /\ \E rc \in {0, 1} :
          /\ cmds' = Append(cmds, CmdAt("dnf", "download", YumCfgFile(Platform),
                                        <<"compiler", "-", "rt", ".", Platform>>, rc))
          /\ IF DownloadFails(rc)
             THEN Fail("CalledProcessError") /\ UNCHANGED fs
             ELSE /\ \E files \in Downloads :
                         fs' = IF rc = 0 THEN AddFiles(fs, YumRpmDir(Platform), files) ELSE fs
                  /\ Goto("scan")
                  /\ UNCHANGED hist
    /\ UNCHANGED <<PLATFORM_SUFFIX, idx, locals, env, assigns, fsLoop>>

\* line 159
IsRtRpm(fn) == EndsWith(fn, <<".", "rpm">>) /\ Contains(fn, <<"compiler", "-", "rt">>)

\* lines 157-161: the first matching entry of os.listdir(yumrpmdir), or None
ScanRpms(f, dir, listing_) ==
    LET found == SelectSeq(ListDir(f, dir, listing_), IsRtRpm)
    IN  IF found = <<>> THEN NOPATH ELSE PathJoin(dir, <<Head(found)>>)

scan ==
    /\ pc = "scan"
    /\ libgcc_rpm_file' = ScanRpms(fs, YumRpmDir(Platform), listing)
    /\ Mark("Fetched")
    /\ Goto("mkextract")
    /\ UNCHANGED <<fs, PLATFORM_SUFFIX, idx, platform_triplet, libgcc_path,
                   libgcc_extract_dir, env, cmds, assigns, fsLoop>>

\* lines 162-163
mkextract ==
    /\ pc = "mkextract"
    /\ IF ExtractDir(Platform) \in DOMAIN fs
       THEN Fail("FileExistsError") /\ UNCHANGED fs
       ELSE /\ fs' = MakeDirs(fs, ExtractDir(Platform))
            /\ Goto("extract")
            /\ UNCHANGED hist
    /\ UNCHANGED <<PLATFORM_SUFFIX, idx, locals, env, cmds, assigns, fsLoop>>

\* popen_cm (lines 240-244) for rpm2cpio, entered with check=True
Rpm2cpioRaises(retcode) == retcode # 0

\* popen_cm (lines 240-244) for cpio, entered without check
CpioRaises(retcode) == FALSE

\* lines 164-166.  An exit code of -1 marks a process that was started
\* and never waited for.
extract ==
    /\ pc = "extract"
    /\ IF libgcc_rpm_file = NOPATH
       THEN \* Popen(['rpm2cpio', None]) raises before anything is started
            Fail("TypeError") /\ UNCHANGED <<fs, cmds>>
       ELSE IF ~cpioOK
       THEN \* rpm2cpio runs; Popen(['cpio', ...]) raises inside the outer `with`
            /\ cmds' = Append(cmds, CmdAt("rpm2cpio", "", libgcc_rpm_file, <<>>, -1))
            /\ Fail("FileNotFoundError")
            /\ UNCHANGED fs
       ELSE \E rc1 \in {0, 1}, rc2 \in {0, 1}, unpacked \in BOOLEAN :
               /\ (rc1 = 0 /\ rc2 = 0) => unpacked
               /\ cmds' = cmds \o <<CmdAt("rpm2cpio", "", libgcc_rpm_file, <<>>, rc1),
                                    CmdAt("cpio", "-idm", ExtractDir(Platform), <<>>, rc2)>>
               /\ fs' = IF unpacked
                        THEN Unpack(fs, ExtractDir(Platform),
                                    PkgTree(ReadNode(fs, libgcc_rpm_file).data,
                                            HostTriple(Platform, nativeOut)))
                        ELSE fs
               /\ IF CpioRaises(rc2) \/ Rpm2cpioRaises(rc1)
                  THEN Fail("CalledProcessError")
                  ELSE Mark("Extracted") /\ Goto("locate")
    /\ UNCHANGED <<PLATFORM_SUFFIX, idx, locals, env, assigns, fsLoop>>

\* (variant: a prefix match)
NameStartsWith(idir, triplet) == StartsWith(idir, triplet)

\* line 172: idir == platform_triplet
NameMatches(idir, triplet) == idir = triplet

\* the walk entries (by position) one of whose dirnames matches
Hits(w, triplet) ==
    {k \in 1..Len(w) : \E j \in 1..Len(w[k].dirnames) : NameMatches(w[k].dirnames[j], triplet)}

\* (variant: the loops do not break and the last match wins)
LocateLast(f, top, triplet, listing_) ==
    LET w == Walk(f, top, listing_)
        hits == Hits(w, triplet)
    IN  IF hits = {} THEN NOPATH
        ELSE LET k == CHOOSE h \in hits : \A g \in hits : h >= g
                 names == SelectSeq(w[k].dirnames, LAMBDA n : NameMatches(n, triplet))
             IN  PathJoin(top, PathJoin(w[k].dirname, <<Head(names)>>))

\* lines 169-176: the first matching directory in walk order, or None
Locate(f, top, triplet, listing_) ==
    LET w == Walk(f, top, listing_)
        hits == Hits(w, triplet)
    IN  IF hits = {} THEN NOPATH
        ELSE LET k == CHOOSE h \in hits : \A g \in hits : h <= g
                 names == SelectSeq(w[k].dirnames, LAMBDA n : NameMatches(n, triplet))
             IN  PathJoin(top, PathJoin(w[k].dirname, <<Head(names)>>))

locate ==
    /\ pc = "locate"
    /\ libgcc_extract_dir' = Locate(fs, ExtractDir(Platform), platform_triplet, listing)
    /\ Goto("install")
    /\ UNCHANGED <<fs, PLATFORM_SUFFIX, idx, platform_triplet, libgcc_path, libgcc_rpm_file,
                   env, cmds, hist, assigns, fsLoop>>

\* (variant: only the directory's own name is kept)
InstallDestFlat(rel) == PathJoin(<<ROOT>>, <<rel[Len(rel)]>>)

\* line 183: path.join('/', libgcc_extract_dir_rel)
InstallDest(rel) == PathJoin(<<ROOT>>, rel)

\* (variant: only the destination directory is made, nothing is copied into it)
InstallTreeDirOnly(f, src, dst) == MakeDirs(f, dst)

\* (variant: symlinks=True is missing)
InstallTreeDeref(f, src, dst) == CopyTree(f, src, dst, FALSE)

\* lines 181-185: shutil.copytree(libgcc_extract_dir, dest, symlinks=True)
InstallTree(f, src, dst) == CopyTree(f, src, dst, TRUE)

\* (variant: dirs_exist_ok=True, an existing destination is copied into)
DestNeverTaken(f, dst) == FALSE

\* lines 181-185: shutil.copytree makes the destination with os.makedirs,
\* which raises when anything is already at that path
DestTaken(f, dst) == dst \in DOMAIN f

\* lines 178-185
install ==
    /\ pc = "install"
    /\ IF libgcc_extract_dir = NOPATH
       THEN \* Path(None) raises
            Fail("TypeError") /\ UNCHANGED fs
       ELSE LET rel == RelativeTo(libgcc_extract_dir, ExtractDir(Platform))
                dst == InstallDest(rel)
            IN  IF DestTaken(fs, dst)
                THEN Fail("FileExistsError") /\ UNCHANGED fs
                ELSE \/ /\ fs' = InstallTree(fs, libgcc_extract_dir, dst)
                        /\ Mark("Installed")
                        /\ Goto("for")
                     \/ \* os.makedirs(dst) is refused
                        /\ Fail("PermissionError")
                        /\ UNCHANGED fs
    /\ UNCHANGED <<PLATFORM_SUFFIX, idx, locals, env, cmds, assigns, fsLoop>>

Next ==
    \/ detect_machine_type
    \/ detect_rpm_distro
    \/ detect_dnf_plugins
    \/ install_native_dev_tools
    \/ set_lld
    \/ remove_libgcc_s
    \/ populate_platform_suffix
    \/ for_platform
    \/ probe
    \/ check
    \/ rmtree
    \/ makedirs
    \/ copytree
    \/ copyfile
    \/ editcfg
    \/ editrepo
    \/ check_update
    \/ download
    \/ scan
    \/ mkextract
    \/ extract
    \/ locate
    \/ install

Spec == Init /\ [][Next]_vars

\* --------------------------------------------------- running it again
\* the file somebody leaves in the scratch directory between two runs
PLACED == <<"placed">>

\* what the run that has ended leaves to be remembered of it
Ended ==
    [last |-> IF idx >= 1 THEN hist[idx][Len(hist[idx])] ELSE "none",
     error |-> error,
     exitCode |-> exitCode,
     dst |-> IF idx >= 1 /\ libgcc_extract_dir # NOPATH
             THEN InstallDest(RelativeTo(libgcc_extract_dir, ExtractDir(Platform)))
             ELSE NOPATH]

\* lines 246-247, a second time: the script is started again on the
\* filesystem the first run left, possibly after a file was put into the
\* scratch directory of the platform the first run worked on. It is a new
\* process: every global and local has its initial value.
\* the first runs after which a second run is followed: those that reached
\* the loop, on a host with the per-target layout and no libgcc_s to move
\* (the runs before the loop and the other hosts differ from these in
\* nothing the loop body reads twice)
Followed ==
    /\ idx >= 1
    /\ nativeOut = LIB \o <<<<"aarch64", "-", "redhat", "-", "linux">>, RT_NAME>>
    /\ LIB \o <<<<"gcc">>, <<"libgcc_s", ".", "so">>>> \notin DOMAIN fs0

rerun ==
    /\ pc = "exited"
    /\ run = "first"
    /\ Followed
    /\ run' = "second"
    /\ prev' = Ended
    /\ \E placed \in BOOLEAN :
          fs' = IF placed /\ idx >= 1 /\ YumDir(Platform) \in DOMAIN fs
                THEN Put(fs, YumDir(Platform) \o <<PLACED>>, FileNode(<<"x">>))
                ELSE fs
    /\ fs0' = fs'
    /\ fsLoop' = fs'
    /\ pc' = "detect_machine_type"
    /\ PLATFORM_SUFFIX' = NONE
    /\ idx' = 0
    /\ platform_triplet' = NONE
    /\ libgcc_path' = NOPATH
    /\ libgcc_rpm_file' = NOPATH
    /\ libgcc_extract_dir' = NOPATH
    /\ clangOK' = TRUE
    /\ cpioOK' = TRUE
    /\ exitCode' = -1
    /\ error' = "none"
    /\ cmds' = <<>>
    /\ hist' = [k \in DOMAIN hist |-> <<"NotChecked">>]
    /\ assigns' = 0
    /\ UNCHANGED <<nativeOut, listing, targets>>

RerunNext ==
    \/ Next
    \/ rerun

\* one run of the script, and possibly a second one after it
RerunSpec == Init /\ [][RerunNext]_vars

\* --------------------------------------------- a longer platform list
\* TARGET_PLATFORMS of line 107 with a second entry
TWO_PLATFORMS == TARGET_PLATFORMS \o <<"aarch64">>

\* the script with two platforms to provide for
MultiSpec == InitWith(TWO_PLATFORMS) /\ [][Next]_vars

\* ======================================================== properties
Range(s) == {s[k] : k \in 1..Len(s)}
Last(s) == s[Len(s)]

\* an attempt for a platform is under way or over
InAttempt == idx >= 1 /\ pc # "for"

\* the states the current attempt went through
Attempt == hist[idx]

\* the target triple, written out: <arch>-<suffix>
Triple == <<targets[idx], "-">> \o PLATFORM_SUFFIX

\* everything the attempt changed lies in the scratch directory ~/yum-<arch>
ScratchOnly == \A p \in Changed(fsLoop, fs) : IsUnder(p, YumDir(Platform))

\* the commands of the attempt that were started with this executable
Started(exe) == {k \in 1..Len(cmds) : cmds[k].exe = exe}

\* ---- C1 ----------------------------------------------------------------
\* the probe of the attempt exited 0 and the path it printed existed when
\* the attempt began
ProbedPresent ==
    /\ idx >= 1
    /\ Len(cmds) >= 1
    /\ cmds[1].exe = "clang"
    /\ cmds[1].rc = 0
    /\ PathExists(fsLoop, AbsPath(LIB \o <<Triple, RT_NAME>>))

\* C1: when the probed runtime-library path of a platform already exists,
\* its attempt consists of the probe alone: no other command is started
\* (no dnf, rpm2cpio or cpio), the filesystem is left as it was (scratch
\* directory neither removed nor created, nothing copied), and the attempt
\* ends as Present.
C1_ProbeOnlyWhenPresent ==
    ProbedPresent =>
        /\ fs = fsLoop
        /\ cmds = <<CmdAt("clang", "print-libgcc-file-name", NOPATH, Triple, 0)>>
        /\ Attempt \in {<<"NotChecked">>, <<"NotChecked", "Present">>}
        /\ pc \in {"check", "for", "exited"}
        /\ pc # "check" => Attempt = <<"NotChecked", "Present">>

C1_Witness ==
    /\ ProbedPresent
    /\ pc = "exited"
    /\ exitCode = 0
    /\ Attempt = <<"NotChecked", "Present">>
    /\ YumDir(Platform) \in DOMAIN fs

\* ---- C2 ----------------------------------------------------------------
FullPath == <<"NotChecked", "Absent", "RepoBuilt", "Fetched", "Extracted", "Installed">>

\* the sequences of states an attempt may have gone through
AllowedHists ==
    {<<"NotChecked">>, <<"NotChecked", "Present">>}
    \cup {SubSeq(FullPath, 1, n) : n \in 1..Len(FullPath)}
    \cup {Append(SubSeq(FullPath, 1, n), "Failed") : n \in 1..(Len(FullPath) - 1)}

\* the state in which each statement of the loop body runs
StateAt(label) ==
    IF label \in {"probe", "check"} THEN "NotChecked"
    ELSE IF label \in {"rmtree", "makedirs", "copytree", "copyfile", "editcfg", "editrepo"}
    THEN "Absent"
    ELSE IF label \in {"check_update", "download", "scan"} THEN "RepoBuilt"
    ELSE IF label \in {"mkextract", "extract"} THEN "Fetched"
    ELSE "Extracted"

\* C2: every attempt moves only along NotChecked -> Present or NotChecked ->
\* Absent -> RepoBuilt -> Fetched -> Extracted -> Installed, with Failed
\* reachable from every non-terminal step; no state is entered twice,
\* nothing follows Present, Installed or Failed, and the builder, fetcher,
\* extractor and installer statements run only in the state that precedes
\* them in that order.
C2_AttemptOrder ==
    /\ \A k \in 1..Len(TARGET_PLATFORMS) : hist[k] \in AllowedHists
    /\ \A k \in 1..Len(TARGET_PLATFORMS) : k > idx => hist[k] = <<"NotChecked">>
    /\ (InAttempt /\ pc # "exited") => Last(Attempt) = StateAt(pc)
    /\ (idx >= 1 /\ pc = "for") => Last(Attempt) \in {"Present", "Installed"}
    /\ (InAttempt /\ pc = "exited") => Last(Attempt) \in {"Present", "Installed", "Failed"}

C2_Witness ==
    /\ pc = "exited"
    /\ idx = Len(TARGET_PLATFORMS)
    /\ Attempt = FullPath
    /\ \E k \in 1..Len(cmds) : cmds[k].exe = "cpio" /\ cmds[k].rc = 0

\* ---- C3 ----------------------------------------------------------------
\* the system's repository definitions and main configuration file
SystemConfig(f) ==
    Restrict(f, {p \in DOMAIN f : IsUnder(p, SYS_REPOS) \/ IsUnder(p, SubSeq(SYS_DNFCONF, 1, 3))})

\* the builder of the current attempt is running or has ended
Building ==
    /\ InAttempt
    /\ \/ pc \in {"makedirs", "copytree", "copyfile", "editcfg", "editrepo", "check_update"}
       \/ pc = "exited" /\ Attempt = <<"NotChecked", "Absent", "Failed">>

\* C3: whatever succeeds or fails, /etc/yum.repos.d and /etc/dnf/dnf.conf
\* are the same in every state of the run as at its start, and while the
\* isolated repository context is built (and when the builder has ended or
\* failed) every path the attempt has created, changed or removed lies
\* under ~/yum-<arch>.
C3_Isolation ==
    /\ SystemConfig(fs) = SystemConfig(fs0)
    /\ Building => ScratchOnly

\* the builder has finished over a repository directory that holds a
\* symbolic link, whose copy was rewritten for the platform
C3_Witness ==
    /\ InAttempt
    /\ pc = "check_update"
    /\ SYS_REPOS \o <<<<"link", ".", "repo">>>> \in DOMAIN fs
    /\ fs[SYS_REPOS \o <<<<"link", ".", "repo">>>>].kind = "link"
    /\ fs[YumRepoDir(Platform) \o <<<<"link", ".", "repo">>>>]
         = FileNode(<<"baseurl", Platform, "x", Platform>>)
    /\ fs[BASE_REPO] = FileNode(<<"baseurl", "$basearch", "x", "$basearch">>)
    /\ Changed(fsLoop, fs) # {}

\* ---- C4 ----------------------------------------------------------------
\* C4 (as claimed): a non-zero exit of rpm2cpio or of cpio fails the
\* attempt, and the search and the copy happen only after both processes
\* were waited for and both exited 0.
C4_BothStagesChecked ==
    InAttempt =>
        /\ \A k \in Started("rpm2cpio") \cup Started("cpio") :
               cmds[k].rc # 0 => (pc = "exited" /\ Last(Attempt) = "Failed")
        /\ "Extracted" \in Range(Attempt) =>
               /\ \E k \in Started("rpm2cpio") : cmds[k].rc = 0
               /\ \E k \in Started("cpio") : cmds[k].rc = 0

\* ---- C5 ----------------------------------------------------------------
\* the download of the attempt exited 0 and left no file whose name ends in
\* '.rpm' and contains 'compiler-rt'
NoPackageDownloaded ==
    /\ InAttempt
    /\ \E k \in Started("dnf") : cmds[k].op = "download" /\ cmds[k].rc = 0
    /\ ~\E p \in Children(fs, YumRpmDir(Platform)) :
            /\ EndsWith(Last(p), <<".", "rpm">>)
            /\ Contains(Last(p), <<"compiler", "-", "rt">>)

\* C5 (as claimed): in that case the attempt fails at the fetch step: the
\* extraction directory is never created and no archive tool is started.
C5_NotFoundAtFetch ==
    NoPackageDownloaded =>
        /\ ExtractDir(Platform) \notin DOMAIN fs
        /\ Started("rpm2cpio") \cup Started("cpio") = {}

\* ---- C6 ----------------------------------------------------------------
\* the directories of the extracted tree named exactly <arch>-<suffix>
TripleDirs ==
    {p \in DOMAIN fs :
        /\ IsUnder(p, ExtractDir(Platform)) /\ p # ExtractDir(Platform)
        /\ fs[p].kind = "dir"
        /\ Last(p) = Triple}

\* the extraction of the attempt is over and the walk has run
Located == InAttempt /\ "Extracted" \in Range(Attempt) /\ pc # "locate"

\* C6: when the extracted tree holds no directory named exactly
\* <arch>-<suffix>, the attempt is never Installed, it ends in Failed, and
\* nothing outside the scratch directory (nothing under the system root) is
\* created or modified.
C6_MissingDirFatal ==
    (Located /\ TripleDirs = {}) =>
        /\ libgcc_extract_dir = NOPATH
        /\ "Installed" \notin Range(Attempt)
        /\ pc \in {"install", "exited"}
        /\ pc = "exited" => (Last(Attempt) = "Failed" /\ exitCode = 1)
        /\ ScratchOnly

\* the attempt failed over a tree that holds a longer-named directory and
\* a regular file with the exact name
C6_Witness ==
    /\ Located
    /\ TripleDirs = {}
    /\ pc = "exited"
    /\ error = "TypeError"
    /\ \E p \in DOMAIN fs :
          /\ IsUnder(p, ExtractDir(Platform))
          /\ fs[p].kind = "dir"
          /\ Last(p) = Triple \o <<"-", "x">>
    /\ \E p \in DOMAIN fs :
          /\ IsUnder(p, ExtractDir(Platform))
          /\ fs[p].kind = "file"
          /\ Last(p) = Triple

\* ---- C7 ----------------------------------------------------------------
\* C7: the exit code of `dnf -c <cfg> check-update` never fails the attempt
\* and the download is the next thing started; a non-zero exit of `dnf -c
\* <cfg> download compiler-rt.<arch>` fails the attempt: it is the last
\* command started, the attempt never reaches Fetched, and the extraction
\* directory is never created.
C7_FetchExitCodes ==
    InAttempt =>
        \A k \in Started("dnf") :
            /\ cmds[k].file = YumCfgFile(Platform)
            /\ cmds[k].op = "check-update" =>
                   IF k = Len(cmds)
                   THEN pc = "download" /\ Last(Attempt) = "RepoBuilt"
                   ELSE /\ cmds[k + 1].exe = "dnf"
                        /\ cmds[k + 1].op = "download"
                        /\ cmds[k + 1].arg = <<"compiler", "-", "rt", ".", Platform>>
            /\ (cmds[k].op = "download" /\ cmds[k].rc # 0) =>
                   /\ k = Len(cmds)
                   /\ pc = "exited"
                   /\ exitCode = 1
                   /\ Attempt = <<"NotChecked", "Absent", "RepoBuilt", "Failed">>
                   /\ ExtractDir(Platform) \notin DOMAIN fs
                   /\ ScratchOnly

\* the refresh exited non-zero, the download was started all the same and
\* exited non-zero too
C7_Witness ==
    /\ InAttempt
    /\ pc = "exited"
    /\ Len(cmds) = 3
    /\ cmds[2].op = "check-update" /\ cmds[2].rc = 1
    /\ cmds[3].op = "download" /\ cmds[3].rc = 1
    /\ error = "CalledProcessError"

\* ---- C8 ----------------------------------------------------------------
LoopLabels ==
    {"probe", "check", "rmtree", "makedirs", "copytree", "copyfile", "editcfg", "editrepo",
     "check_update", "download", "scan", "mkextract", "extract", "locate", "install"}

SuffixReady ==
    /\ assigns \in {0, 1}
    /\ assigns = 0 => (PLATFORM_SUFFIX = NONE /\ idx = 0 /\ pc \notin LoopLabels \cup {"for"})
    /\ (idx >= 1 \/ pc \in LoopLabels \cup {"for"}) => assigns = 1
    /\ \A k \in Started("clang") :
           cmds[k].arg # NONE => (assigns = 1 /\ idx >= 1 /\ cmds[k].arg = Triple)
    /\ idx >= 1 => platform_triplet = Triple
    /\ (idx >= 1 /\ libgcc_extract_dir # NOPATH) => Last(libgcc_extract_dir) = Triple

\* C8: PLATFORM_SUFFIX is assigned by populate_platform_suffix only and at
\* most once; the assignment has happened exactly once before any probe
\* with a target and before any statement of the loop; once assigned it
\* never changes; and the --target value of every probe with a target, the
\* triplet of the loop and the name of the located directory are all
\* <arch>-<that suffix>.
C8_SuffixOnce ==
    /\ []SuffixReady
    /\ [][assigns >= 1 => (PLATFORM_SUFFIX' = PLATFORM_SUFFIX /\ assigns' = assigns)]_vars
    /\ [][PLATFORM_SUFFIX' # PLATFORM_SUFFIX =>
              (pc = "populate_platform_suffix" /\ assigns = 0 /\ assigns' = 1)]_vars

C8_Witness ==
    /\ pc = "install"
    /\ assigns = 1
    /\ PLATFORM_SUFFIX = <<"unknown">>
    /\ cmds[1].exe = "clang"
    /\ cmds[1].arg = <<"x86_64", "-", "unknown">>
    /\ libgcc_extract_dir # NOPATH

\* ---- C9 ----------------------------------------------------------------
\* C9: when the attempt is Installed, with the located directory at
\* relative path R under the extraction root: the directory did not exist
\* at '/' + R before, every directory, file and symbolic link of the
\* located tree is at the same relative path under '/' as the same kind of
\* node with the same contents or link target, '/' + R holds nothing else,
\* and outside the scratch directory nothing was created or changed but
\* '/' + R, what is below it, and its parent directories that were missing.
C9_InstallDestination ==
    (InAttempt /\ "Installed" \in Range(Attempt)) =>
        LET top == ExtractDir(Platform)
            R == RelativeTo(libgcc_extract_dir, top)
            dst == <<ROOT>> \o R
        IN  /\ Last(R) = Triple
            /\ dst \notin DOMAIN fsLoop
            /\ \A p \in DOMAIN fs :
                   IsUnder(p, libgcc_extract_dir) =>
                       /\ <<ROOT>> \o RelativeTo(p, top) \in DOMAIN fs
                       /\ fs[<<ROOT>> \o RelativeTo(p, top)] = fs[p]
            /\ \A q \in DOMAIN fs : IsUnder(q, dst) => top \o Tail(q) \in DOMAIN fs
            /\ \A p \in Changed(fsLoop, fs) :
                   \/ IsUnder(p, YumDir(Platform))
                   \/ IsUnder(p, dst)
                   \/ p \in Parents(dst) /\ p \notin DOMAIN fsLoop /\ fs[p] = DirNode

\* installed two levels down, below a parent directory that was missing,
\* with the symbolic link of the package still a link
C9_Witness ==
    /\ InAttempt
    /\ Last(Attempt) = "Installed"
    /\ LET dst == <<ROOT, <<"lib">>, <<"lib">>, Triple>>
       IN  /\ dst \in DOMAIN fs
           /\ <<ROOT, <<"lib">>, <<"lib">>>> \notin DOMAIN fsLoop
           /\ fs[dst \o <<<<"rt", ".", "so">>>>] = LinkNode(<<RT_NAME>>)
           /\ fs[dst \o <<RT_NAME>>].kind = "file"

\* ---- C10 ---------------------------------------------------------------
\* C10: when the extracted tree holds at least one directory named exactly
\* <arch>-<suffix>, the walk yields one of them (a path inside the
\* extraction root whose last component is the triple), and it is the
\* first in walk order: every other walk entry that lists the name comes
\* after the entry of the directory returned.
C10_LocatorResult ==
    (Located /\ TripleDirs # {}) =>
        /\ libgcc_extract_dir \in TripleDirs
        /\ LET w == Walk(fs, ExtractDir(Platform), listing)
           IN  \A k \in 1..Len(w) :
                   (/\ \E n \in 1..Len(w[k].dirnames) : w[k].dirnames[n] = Triple
                    /\ w[k].dirname \o <<Triple>> # libgcc_extract_dir)
                   => \E j \in 1..(k - 1) : w[j].dirname \o <<Triple>> = libgcc_extract_dir

\* two directories carry the name, and the one found is not the only one
C10_Witness ==
    /\ Located
    /\ pc = "install"
    /\ Cardinality(TripleDirs) = 2
    /\ libgcc_extract_dir \in TripleDirs

\* ---- C11 ---------------------------------------------------------------
\* the probe of the attempt exited 0 and the path it printed did not exist
\* when the attempt began
ProbedAbsent ==
    /\ idx >= 1
    /\ Len(cmds) >= 1
    /\ cmds[1].exe = "clang"
    /\ cmds[1].rc = 0
    /\ libgcc_path # NOPATH
    /\ ~PathExists(fsLoop, libgcc_path)

\* every external tool the attempt started has exited with 0
AllZero == \A k \in 1..Len(cmds) : cmds[k].rc = 0

\* the probed path, and the directory that is to hold it
Dir(p) == SubSeq(p, 1, Len(p) - 1)

\* where the probed file lies in the unpacked archive if the archive holds
\* it at its place
UnpackedLib == ExtractDir(Platform) \o Tail(libgcc_path)

\* the archive that was unpacked holds the directory <arch>-<suffix> with
\* the probed library file in it
ArchiveHoldsLib ==
    /\ "Extracted" \in Range(Attempt)
    /\ Last(Dir(UnpackedLib)) = Triple
    /\ Dir(UnpackedLib) \in DOMAIN fs
    /\ fs[Dir(UnpackedLib)].kind = "dir"
    /\ UnpackedLib \in DOMAIN fs
    /\ fs[UnpackedLib].kind = "file"

EndToEnd == ProbedAbsent /\ AllZero /\ ArchiveHoldsLib

\* the run has ended with the library installed where the probe looks
InstalledAtProbed ==
    /\ Last(Attempt) = "Installed"
    /\ exitCode = 0
    /\ Dir(libgcc_path) \in DOMAIN fs
    /\ fs[Dir(libgcc_path)].kind = "dir"
    /\ PathExists(fs, libgcc_path)
    /\ fs[libgcc_path] = fs[UnpackedLib]

\* a second run whose probe exits 0, started after a run that ended in
\* Installed and left the probed file in place, has decided
SecondAfterInstalled ==
    /\ run = "second"
    /\ prev.last = "Installed"
    /\ idx >= 1
    /\ Len(cmds) >= 1
    /\ cmds[1].rc = 0
    /\ PathExists(fs0, libgcc_path)
    /\ pc \notin {"check", "for"}

\* that second run ends in Present, having started the probe and nothing
\* else and having left the filesystem alone
SecondIsPresent ==
    /\ pc = "exited"
    /\ exitCode = 0
    /\ Attempt = <<"NotChecked", "Present">>
    /\ Len(cmds) = 1
    /\ fs = fs0

\* C11 (as claimed): if the probe reports the library missing, every
\* external tool exits 0 and the unpacked archive holds <arch>-<suffix>
\* with the probed file, the run ends in Installed with the directory and
\* the probed file under the real root, and a second run ends in Present
\* without fetching or installing.
C11_EndToEnd ==
    /\ (pc = "exited" /\ EndToEnd) => InstalledAtProbed
    /\ SecondAfterInstalled => SecondIsPresent

\* the destination of the install did not exist when the attempt began, the
\* directory the locator returned is the one holding the probed file, and
\* the copy was not refused
FreshAndFound ==
    /\ Dir(libgcc_path) \notin DOMAIN fsLoop
    /\ libgcc_extract_dir = Dir(UnpackedLib)
    /\ error # "PermissionError"

\* C11 (amended): if moreover the destination '/'+R does not exist before
\* the attempt, the directory holding the probed file is the one the
\* locator returns and the copy is not refused, then the run ends in
\* Installed with exit code 0, the directory and the probed file are under
\* the real root, and a second run started on what it left, whose probe
\* exits 0, ends in Present with the probe as its only command and the
\* filesystem untouched.
C11_EndToEndFresh ==
    /\ (pc = "exited" /\ EndToEnd /\ FreshAndFound) => InstalledAtProbed
    /\ SecondAfterInstalled => SecondIsPresent

\* a first run installed the library where the probe looks, and the second
\* run has ended in Present
C11_Witness ==
    /\ run = "second"
    /\ prev.last = "Installed"
    /\ prev.dst = Dir(libgcc_path)
    /\ SecondAfterInstalled
    /\ SecondIsPresent

\* ---- C12 ---------------------------------------------------------------
\* what lies in the scratch directory of the current platform
Scratch(f) == {p \in DOMAIN f : IsUnder(p, YumDir(Platform))}

\* what the builder of this attempt creates: the directory, dnf.conf, the
\* RPMs directory and one entry for each entry of /etc/yum.repos.d
BuilderCreates ==
    {YumDir(Platform), YumCfgFile(Platform), YumRpmDir(Platform)}
    \cup {YumRepoDir(Platform) \o RelativeTo(q, SYS_REPOS) :
              q \in {r \in DOMAIN fs : IsUnder(r, SYS_REPOS)}}

\* the files an earlier run or somebody else may have left in the scratch
\* directory, under names no attempt creates
Leftovers ==
    {YumDir(Platform) \o <<PLACED>>,
     YumDir(Platform) \o <<<<"stale">>>>,
     YumRpmDir(Platform) \o <<<<"compiler", "-", "rt", "-", "old", ".", "rpm">>>>}

\* the attempt found the library absent and is past line 122
PastReset == InAttempt /\ "Absent" \in Range(Attempt) /\ pc # "rmtree"

\* C12: whenever the builder runs, the scratch directory ~/yum-<arch> an
\* earlier run left is removed with all it holds before anything is created
\* (nothing is at or under it when line 127 is reached); when the builder
\* has completed, the scratch directory holds exactly dnf.conf, the copy of
\* yum.repos.d and an empty RPMs directory; and a file left in the scratch
\* directory before the run, one put there between two runs included, is
\* in it at no later point of the attempt.
C12_ScratchReset ==
    /\ (InAttempt /\ pc = "makedirs") => Scratch(fs) = {}
    /\ (InAttempt /\ pc = "check_update") =>
           /\ Scratch(fs) = BuilderCreates
           /\ Children(fs, YumRpmDir(Platform)) = {}
    /\ PastReset => \A p \in Leftovers : p \notin DOMAIN fs

\* the first run built the scratch directory, a file was put into it, and
\* the builder of the second run has completed
C12_Witness ==
    /\ run = "second"
    /\ InAttempt
    /\ pc = "check_update"
    /\ YumCfgFile(Platform) \in DOMAIN fs0
    /\ YumDir(Platform) \o <<PLACED>> \in DOMAIN fs0
    /\ YumDir(Platform) \o <<PLACED>> \notin DOMAIN fs

\* ---- C13 ---------------------------------------------------------------
\* the regular files of the copied repository-definitions directory
CopiedFiles(f) ==
    {p \in DOMAIN f : IsUnder(p, YumRepoDir(Platform)) /\ f[p].kind = "file"}

\* new is old with each placeholder token replaced by the platform and
\* every other token at its place
Substituted(old, new) ==
    /\ Len(new) = Len(old)
    /\ \A k \in 1..Len(old) :
           new[k] = IF old[k] = "$basearch" THEN Platform ELSE old[k]

\* what the step from f to g did to the filesystem
RewriteOK(f, g) ==
    /\ DOMAIN g = DOMAIN f
    /\ \A p \in DOMAIN f :
           IF p \in CopiedFiles(f) /\ EndsWith(Last(p), <<".", "repo">>)
           THEN g[p].kind = "file" /\ Substituted(f[p].data, g[p].data)
           ELSE g[p] = f[p]

\* C13: the rewrite of lines 139-148 for platform A replaces, in every file
\* of the copied repository-definitions directory whose name ends in
\* '.repo', every occurrence of the token $basearch by A and alters no
\* other token; every file whose name does not end in '.repo', and
\* everything else, is after the rewrite what it was before.
C13_RewriteCorrect == [][pc = "editrepo" => RewriteOK(fs, fs')]_vars

\* the rewrite is over: a '.repo' file that held the placeholder twice
\* holds the platform twice, and a '.repo.bak' file still holds the
\* placeholder
C13_Witness ==
    /\ InAttempt
    /\ pc = "check_update"
    /\ LET repo == YumRepoDir(Platform) \o <<<<"base", ".", "repo">>>>
           bak == YumRepoDir(Platform) \o <<<<"base", ".", "repo", ".", "bak">>>>
       IN  /\ repo \in DOMAIN fs
           /\ bak \in DOMAIN fs
           /\ fs[repo].data = <<"baseurl", Platform, "x", Platform>>
           /\ fs[bak].data = <<"$basearch">>

\* ---- C14 ---------------------------------------------------------------
\* the platforms whose attempt ended in Failed, and those whose attempt
\* ended in Present or Installed
FailedPlatforms == {k \in DOMAIN hist : "Failed" \in Range(hist[k])}
ProvidedPlatforms == {k \in DOMAIN hist : Last(hist[k]) \in {"Present", "Installed"}}

\* C14: when the process has exited, its exit code is non-zero if the
\* attempt of any configured platform ended in Failed, and it is zero only
\* if the attempt of every configured platform ended in Present or
\* Installed; while the process runs it has no exit code.
C14_ExitStatus ==
    /\ pc = "exited" =>
           /\ exitCode \in {0, 1}
           /\ FailedPlatforms # {} => exitCode # 0
           /\ exitCode = 0 => ProvidedPlatforms = DOMAIN hist
    /\ pc # "exited" => (exitCode = -1 /\ FailedPlatforms = {})

\* the first platform was provided for, the second one's attempt failed,
\* and the process exited with 1
C14_Witness ==
    /\ pc = "exited"
    /\ Len(hist) = 2
    /\ Last(hist[1]) = "Installed"
    /\ Last(hist[2]) = "Failed"
    /\ exitCode = 1

\* ---- C15 ---------------------------------------------------------------
\* the probe of the current attempt could not be started, or it exited with
\* a non-zero code
ProbeFailed ==
    /\ idx >= 1
    /\ \/ ~clangOK /\ pc \notin {"for", "probe"}
       \/ Len(cmds) >= 1 /\ cmds[1].exe = "clang" /\ cmds[1].rc # 0

\* C15: when the compiler driver is missing or exits non-zero during the
\* existence probe of a platform, the attempt goes from NotChecked straight
\* to Failed and the process ends with the exception; the library is not
\* taken to be absent, the filesystem is what it was when the attempt began
\* (the scratch directory is neither removed nor created), and no command
\* other than the probe was started.
C15_ProbeFailureFatal ==
    ProbeFailed =>
        /\ pc = "exited"
        /\ exitCode = 1
        /\ error \in {"CalledProcessError", "FileNotFoundError"}
        /\ Attempt = <<"NotChecked", "Failed">>
        /\ fs = fsLoop
        /\ Len(cmds) <= 1
        /\ libgcc_path = NOPATH

\* the probe exited with 1 while an earlier run's scratch directory was
\* there and the library was not: the scratch directory is still there
C15_Witness ==
    /\ ProbeFailed
    /\ Len(cmds) = 1
    /\ cmds[1].rc = 1
    /\ error = "CalledProcessError"
    /\ YumDir(Platform) \o <<<<"stale">>>> \in DOMAIN fs
    /\ ~PathExists(fs, AbsPath(LIB \o <<Triple, RT_NAME>>))

\* ---- C16 ---------------------------------------------------------------
\* where the install step of the current attempt copies to
Dest == InstallDest(RelativeTo(libgcc_extract_dir, ExtractDir(Platform)))

\* what a filesystem holds at and under a path
Under(f, d) == Restrict(f, {p \in DOMAIN f : IsUnder(p, d)})

\* the install step of the attempt is over, the probe had found the library
\* absent, and the destination existed when the attempt began
InstallOntoExisting ==
    /\ idx >= 1
    /\ pc \in {"for", "exited"}
    /\ "Extracted" \in Range(Attempt)
    /\ libgcc_extract_dir # NOPATH
    /\ ProbedAbsent
    /\ Dest \in DOMAIN fsLoop

\* the attempt failed at the install step because the destination exists
FailedAtInstall ==
    /\ pc = "exited"
    /\ exitCode = 1
    /\ error = "FileExistsError"
    /\ Attempt = <<"NotChecked", "Absent", "RepoBuilt", "Fetched", "Extracted", "Failed">>

\* the earlier run failed at its install step on an existing destination
PrevFailedAtInstall ==
    /\ run = "second"
    /\ prev.last = "Failed"
    /\ prev.error = "FileExistsError"
    /\ prev.dst # NOPATH

\* C16: when the probe reports the library absent but the destination
\* '/' + R exists when the attempt begins, as a directory or as anything
\* else, the copy raises, the attempt ends in Failed, and what was at and
\* under the destination is what it was (nothing merged in, nothing
\* overwritten); the state that made the run fail is thus still there, and
\* a second run that gets to install to the same destination fails at the
\* install step again.
C16_NoMerge ==
    /\ InstallOntoExisting =>
           /\ FailedAtInstall
           /\ Under(fs, Dest) = Under(fsLoop, Dest)
    /\ PrevFailedAtInstall =>
           /\ prev.dst \in DOMAIN fs0
           /\ prev.dst \in DOMAIN fs
           /\ Under(fs, prev.dst) = Under(fs0, prev.dst)
           /\ (/\ idx >= 1
               /\ pc \in {"for", "exited"}
               /\ "Extracted" \in Range(Attempt)
               /\ libgcc_extract_dir # NOPATH
               /\ Dest = prev.dst) => FailedAtInstall

\* the destination is a directory holding an older file; the first run
\* failed at the install step, and so has the second
C16_Witness ==
    /\ PrevFailedAtInstall
    /\ InstallOntoExisting
    /\ FailedAtInstall
    /\ Dest = prev.dst
    /\ fs[Dest].kind = "dir"
    /\ Dest \o <<<<"rt", ".", "so">>>> \in DOMAIN fs
    /\ fs[Dest \o <<<<"rt", ".", "so">>>>] = FileNode(<<"old">>)

\* ---- C17 ---------------------------------------------------------------
\* C17: with more than one platform in the list, once a step of one
\* platform's attempt has failed the process has ended with that platform
\* as the last one the loop took up: every later platform of the list is
\* still NotChecked (not probed, nothing fetched or installed for it), and
\* at most one attempt of a run is ever Failed.
C17_FailureAbortsRun ==
    \A k \in FailedPlatforms :
        /\ pc = "exited"
        /\ exitCode = 1
        /\ idx = k
        /\ FailedPlatforms = {k}
        /\ \A j \in DOMAIN hist : j > k => hist[j] = <<"NotChecked">>
        /\ \A j \in DOMAIN hist : j > k =>
               \A p \in Changed(fs0, fs) : ~IsUnder(p, YumDir(targets[j]))

\* the first of two platforms failed after its download, and the second one
\* was never taken up
C17_Witness ==
    /\ Len(targets) = 2
    /\ pc = "exited"
    /\ idx = 1
    /\ "Fetched" \in Range(hist[1])
    /\ Last(hist[1]) = "Failed"
    /\ hist[2] = <<"NotChecked">>

====
